---- MODULE Spec2Model ----
(***************************************************************************)
(* A model of the CHIP-8 interpreter of src/main.rs: CpuState, its        *)
(* constructor, the keypad helpers, emulate_chip8 (one action per          *)
(* instruction form) and the host loop of main that calls them.            *)
(*                                                                         *)
(* Rust integer arithmetic traps ("attempt to ... with overflow") when the *)
(* crate is built with overflow checks (the dev profile) and wraps when it *)
(* is built without them (the release profile).  The variable              *)
(* overflow_checks is the build's choice; a trap, like an out-of-range     *)
(* index, is a panic, after which the process is gone (hpc = "panicked").  *)
(***************************************************************************)
EXTENDS Integers, Sequences, FiniteSets, TLC

\* ------------------------------------------------------------ constants
W == 64
H == 32
FONT_BASE == 0
PROG_BASE == 512
STACK_INIT == 4000
HEADROOM == 5000
NREGS == 17
NKEYS == 17

\* ------------------------------------------------------------ bounds
\* A run makes at most min(k, MaxSteps) + MaxExtra calls of emulate_chip8 that
\* change the machine, for a program image of k instruction words; a call that
\* leaves the machine as it was (a jump to itself, a key wait with no key down)
\* is not counted, so a program that spins does so for ever.
MaxSteps == 7
MaxExtra == 1

\* ------------------------------------------------------------ bytes

RECURSIVE BitAnd(_, _)
BitAnd(a, b) ==
    IF a = 0 \/ b = 0 THEN 0
    ELSE ((a % 2) * (b % 2)) + 2 * BitAnd(a \div 2, b \div 2)

RECURSIVE BitOr(_, _)
BitOr(a, b) ==
    IF a = 0 THEN b
    ELSE IF b = 0 THEN a
    ELSE (IF (a % 2) + (b % 2) > 0 THEN 1 ELSE 0) + 2 * BitOr(a \div 2, b \div 2)

RECURSIVE BitXor(_, _)
BitXor(a, b) ==
    IF a = 0 THEN b
    ELSE IF b = 0 THEN a
    ELSE (((a % 2) + (b % 2)) % 2) + 2 * BitXor(a \div 2, b \div 2)

RECURSIVE Pow2(_)
Pow2(k) == IF k = 0 THEN 1 ELSE 2 * Pow2(k - 1)

\* bit b of v, b = 0 the least significant
Bit(v, b) == (v \div Pow2(b)) % 2

\* ------------------------------------------------------------ state
VARIABLES
    pc,               \* CpuState.pc
    sp,               \* CpuState.sp
    I,                \* CpuState.I (u16)
    V,                \* CpuState.V: [u8; 17]
    delay,            \* CpuState.delay
    sound,            \* CpuState.sound
    mem,              \* CpuState.mem, as the map of its non-zero bytes
    mem_len,          \* CpuState.mem.len()
    screen_buffer,    \* CpuState.screen_buffer, as the set of indices holding 0xffffff
    key_state,        \* CpuState.key_state: [u8; 17]
    hpc,              \* where main's loop stands
    overflow_checks,  \* whether the build traps on integer overflow
    steps,            \* how many more emulate_chip8 calls may change the machine
    hist              \* history: the last two instructions emulate_chip8 ran with
                      \* pc and sp before each, and what the last LD [I],Vx stored

vars == <<pc, sp, I, V, delay, sound, mem, mem_len, screen_buffer, key_state,
          hpc, overflow_checks, steps, hist>>

cpu == <<pc, sp, I, V, delay, sound, mem, screen_buffer>>

\* ------------------------------------------------------------ memory
\* m[a] for a < mem.len(); the vector is zero-filled where not written
MemOf(m, a) == IF a \in DOMAIN m THEN m[a] ELSE 0

\* self.mem[a]
MemAt(a) == MemOf(mem, a)

\* m with m[a] = v, kept as the map of non-zero bytes
Store(m, a, v) ==
    IF v = 0
    THEN [k \in (DOMAIN m) \ {a} |-> m[k]]
    ELSE [k \in (DOMAIN m) \cup {a} |-> IF k = a THEN v ELSE m[k]]


\* ------------------------------------------------------------ construction
\* get_font_sprite(): the five glyphs the function builds, appended in order
get_font_sprite ==
    <<240, 144, 144, 144, 240,
      32, 96, 32, 32, 112,
      240, 16, 240, 16, 240,
      144, 144, 240, 16, 16,
      240, 128, 240, 16, 240>>

\* CpuState::new(m).mem: zero-filled, the image copied to 0x200.., then the
\* font copied to 0..
NewMem(m) ==
    LET font_arr == get_font_sprite
        at(a) == IF a < Len(font_arr) THEN font_arr[a + 1]
                 ELSE IF a >= PROG_BASE /\ a < PROG_BASE + Len(m) THEN m[a - PROG_BASE + 1]
                 ELSE 0
    IN [a \in {b \in 0..(PROG_BASE + Len(m) - 1) : at(b) # 0} |-> at(a)]

\* CpuState::new(m).mem.len()
NewMemLen(m) == PROG_BASE + Len(m) + HEADROOM

\* ------------------------------------------------------------ program images
\* The two bytes of an instruction word, from its nibbles / fields.
Ins(a, b, c, d) == <<a * 16 + b, c * 16 + d>>
InsB(a, x, kk) == <<a * 16 + x, kk>>
InsA(a, nnn) == <<a * 16 + (nnn \div 256), nnn % 256>>

RegPairs == {<<0, 1>>, <<1, 15>>, <<15, 0>>, <<1, 1>>, <<15, 15>>}
ValPairs == {<<1, 2>>, <<2, 1>>, <<2, 2>>, <<255, 1>>, <<0, 0>>, <<157, 200>>, <<128, 128>>}
Regs == {0, 1, 15}
RegVals == {0, 3, 15, 16, 17, 157, 255}

\* Vx := a; Vy := b; then one two-register instruction (8xy8 is not in the table)
AluImages ==
    { InsB(6, rp[1], vp[1]) \o InsB(6, rp[2], vp[2]) \o w :
        <<rp, vp, w>> \in
          { <<r, v, Ins(f[1], r[1], r[2], f[2])>> :
              <<r, v, f>> \in RegPairs \X ValPairs \X
                 {<<5, 0>>, <<8, 0>>, <<8, 1>>, <<8, 2>>, <<8, 3>>, <<8, 4>>, <<8, 5>>,
                  <<8, 6>>, <<8, 7>>, <<8, 14>>, <<8, 8>>, <<9, 0>>} } }

\* Vx := a; then one register/immediate instruction with immediate b
ImmImages ==
    { InsB(6, x, vp[1]) \o InsB(f, x, vp[2]) :
        <<x, vp, f>> \in Regs \X ValPairs \X {3, 4, 7, 12} }

\* Vx := a; then one single-register instruction (Ex00 and FxFF are not in the table)
RegImages ==
    { InsB(6, x, a) \o InsB(f[1], x, f[2]) :
        <<x, a, f>> \in Regs \X RegVals \X
           {<<14, 158>>, <<14, 161>>, <<14, 0>>, <<15, 7>>, <<15, 10>>, <<15, 21>>,
            <<15, 24>>, <<15, 30>>, <<15, 41>>, <<15, 51>>, <<15, 85>>, <<15, 101>>,
            <<15, 255>>} }

\* V0 := vx; V1 := vy; I := addr; DRW V0,V1,n twice; CLS; then three sprite bytes
SpriteAddr == PROG_BASE + 12
DrawImages ==
    { InsB(6, 0, p[1]) \o InsB(6, 1, p[2]) \o InsA(10, addr) \o Ins(13, 0, 1, n)
        \o Ins(13, 0, 1, n) \o <<0, 224>> \o <<129, 255, 60>> :
        <<p, addr, n>> \in
           {<<0, 0>>, <<1, 0>>, <<60, 30>>, <<63, 31>>, <<255, 255>>}
           \X {FONT_BASE, SpriteAddr} \X {0, 1, 5, 15} }

\* calls, returns and jumps
FlowImages ==
    { InsA(2, 516) \o InsA(1, 512) \o <<0, 238>>,       \* CALL 204; JP 200; RET
      InsA(2, 514) \o InsA(2, 516) \o <<0, 238>>,       \* CALL 202; CALL 204; RET
      InsA(2, 512) \o <<0, 238>>,                       \* CALL 200 (itself); RET
      <<0, 238>> \o <<0, 224>>,                         \* RET with nothing pushed
      InsA(1, 512),                                     \* JP 200 (itself)
      InsA(1, 513) \o <<0, 0>>,                         \* JP 201
      InsA(10, 4000) \o InsB(6, 0, 255) \o InsB(6, 1, 254)
        \o InsB(15, 1, 85) \o <<0, 238>>,               \* a forged return address
      <<0, 1>> \o <<128, 15>> \o <<224, 159>> \o <<240, 102>>,
      InsA(2, 514) \o InsA(2, 516) \o InsA(2, 518) \o InsA(2, 520) \o <<0, 238>>,
      \* JP F9E; zeros; at F9E, where the first push lands: CALL 300; RET
      InsA(1, STACK_INIT - 2) \o [i \in 1..(STACK_INIT - 2 - PROG_BASE - 2) |-> 0]
        \o InsA(2, 768) \o <<0, 238>> }
    \cup
    { InsB(6, 0, a) \o InsA(11, nnn) \o <<0, 238>> :    \* V0 := a; JP V0,nnn
        <<a, nnn>> \in {0, 2, 255} \X {512, 516, 4095} }

\* V0 := a; V1 := b; I := addr; LD [I],Vx; V0 := 119; I := addr; LD Vx,[I]
StoreLoadImages ==
    { InsB(6, 0, vp[1]) \o InsB(6, 1, vp[2]) \o InsA(10, addr) \o InsB(15, x, 85)
        \o InsB(6, 0, 119) \o InsA(10, addr) \o InsB(15, x, 101) :
        <<vp, addr, x>> \in {<<1, 2>>, <<157, 200>>} \X {768, 4095, 518} \X Regs }

\* Vx := a; LD DT,Vx or LD ST,Vx; LD V0,DT; then a jump to itself
TimerImages ==
    { InsB(6, x, a) \o InsB(15, x, t) \o InsB(15, 0, 7) \o InsA(1, PROG_BASE + 6) :
        <<x, a, t>> \in {1, 2} \X {0, 3, 200} \X {21, 24} }

\* I := FA0; V0, V1 := the address of the last two words of mem; LD [I],V1;
\* RET to that address; two words of padding.  The words at the end of mem are
\* 0x0000.
EndImages ==
    LET len == 14
        target == PROG_BASE + len + HEADROOM - 4
    IN { InsA(10, STACK_INIT) \o InsB(6, 0, target \div 256) \o InsB(6, 1, target % 256)
           \o InsB(15, 1, 85) \o <<0, 238>> \o <<0, 0>> \o <<0, 0>> }

Images ==
    AluImages \cup ImmImages \cup RegImages \cup DrawImages \cup FlowImages
      \cup StoreLoadImages \cup TimerImages \cup EndImages

\* what window.get_keys() may report in one turn of the loop
KeySets == {{}, {3}, {3, 15}}

\* what rng.gen() may return
RandBytes == {0, 170, 255}

ZeroRegs == [i \in 0..(NREGS - 1) |-> 0]
ZeroKeys == [i \in 0..(NKEYS - 1) |-> 0]

\* the emulate_chip8 calls that change the machine a run on image m may make
Budget(m) ==
    (IF Len(m) \div 2 < MaxSteps THEN Len(m) \div 2 ELSE MaxSteps) + MaxExtra

\* history before any instruction ran / before any LD [I],Vx ran
NoPrev == [op |-> "none", pc |-> PROG_BASE, sp |-> STACK_INIT]
NoDump == [valid |-> FALSE, I |-> 0, x |-> 0, V |-> ZeroRegs]

\* CpuState::new(&data), for a program image and a build
Init ==
    \E m \in Images, oc \in BOOLEAN :
        /\ pc = PROG_BASE
        /\ sp = STACK_INIT
        /\ I = 0
        /\ V = ZeroRegs
        /\ delay = 0
        /\ sound = 0
        /\ mem = NewMem(m)
        /\ mem_len = NewMemLen(m)
        /\ screen_buffer = {}
        /\ key_state = ZeroKeys
        /\ hpc = "loop"
        /\ overflow_checks = oc
        /\ steps = Budget(m)
        /\ hist = [op |-> "none", pc |-> PROG_BASE, sp |-> STACK_INIT,
                   prev |-> NoPrev, dump |-> NoDump]

\* ------------------------------------------------------------ main's loop
\* The body of `while window.is_open()`, cut at the calls of emulate_chip8:
\*   "loop"        before cpu.clear_keys()
\*   "space_step"  Space was pressed: about to call emulate_chip8
\*   "disasm"      about to call _disassemble_chip8
\*   "poll"        before the Escape test and window.get_keys()
\*   "step"        about to call emulate_chip8
\*   "render"      about to call window.update_with_buffer
\*   "exit"        the loop was left;  "panicked"  the process panicked

\* update_key_down without the test of keycode > 0xF
update_key_down_unguarded(ks, keycode) ==
    [ks EXCEPT ![keycode] = 1]

\* cpu.update_key_down(keycode), on a keypad ks
update_key_down(ks, keycode) ==
    IF keycode > 15 THEN ks ELSE [ks EXCEPT ![keycode] = 1]

RECURSIVE KeysDown(_, _)
\* update_key_down for each key of the set keys
KeysDown(ks, keys) ==
    IF keys = {} THEN ks
    ELSE LET k == CHOOSE k \in keys : TRUE
         IN KeysDown(update_key_down(ks, k), keys \ {k})

\* cpu.clear_keys()
clear_keys == [i \in DOMAIN key_state |-> 0]

\* window.is_open() holds: clear the keypad, then test Space
HostClear ==
    /\ hpc = "loop"
    /\ key_state' = clear_keys
    /\ \E space \in BOOLEAN : hpc' = IF space THEN "space_step" ELSE "poll"
    /\ UNCHANGED <<cpu, mem_len, overflow_checks, steps, hist>>

\* window.is_open() fails at the loop head, or Escape is down at the break
HostExit ==
    /\ hpc \in {"loop", "poll"}
    /\ hpc' = "exit"
    /\ UNCHANGED <<cpu, mem_len, key_state, overflow_checks, steps, hist>>

\* cpu._disassemble_chip8() after the Space-gated step: it reads data[pc] and
\* data[pc + 1] and prints
HostDisassemble ==
    /\ hpc = "disasm"
    /\ hpc' = IF pc + 1 < mem_len THEN "poll" ELSE "panicked"
    /\ UNCHANGED <<cpu, mem_len, key_state, overflow_checks, steps, hist>>

\* window.get_keys().map(...): update_key_down for every key held
HostPoll ==
    /\ hpc = "poll"
    /\ \E keys \in KeySets : key_state' = KeysDown(key_state, keys)
    /\ hpc' = "step"
    /\ UNCHANGED <<cpu, mem_len, overflow_checks, steps, hist>>

\* window.update_with_buffer(&cpu.screen_buffer)
HostRender ==
    /\ hpc = "render"
    /\ hpc' = "loop"
    /\ UNCHANGED <<cpu, mem_len, key_state, overflow_checks, steps, hist>>

\* ------------------------------------------------------------ decode
\* the fields emulate_chip8 takes from the two bytes at pc
op == MemAt(pc)
lo == MemAt(pc + 1)
high_nib == op \div 16
regx == op % 16
regy == lo \div 16
sml_nib == lo % 16
addr == (op % 16) * 256 + lo

\* emulate_chip8 is being called, and both bytes of the word are inside mem
Emulating == hpc \in {"space_step", "step"} /\ steps > 0
Fetch(nib) == Emulating /\ pc + 1 < mem_len /\ high_nib = nib

\* the history after the instruction named tag: what LD [I],Vx stored is
\* remembered until memory is written again
Record(tag) ==
    [op |-> tag, pc |-> pc, sp |-> sp,
     prev |-> [op |-> hist.op, pc |-> hist.pc, sp |-> hist.sp],
     dump |-> IF tag = "LD_I_Vx" THEN [valid |-> TRUE, I |-> I, x |-> regx, V |-> V]
              ELSE IF tag \in {"CALL", "LD_B"} THEN NoDump
              ELSE hist.dump]

\* emulate_chip8 returns to the loop
Return(tag) ==
    /\ hpc' = IF hpc = "space_step" THEN "disasm" ELSE "render"
    /\ steps' = IF cpu' = cpu THEN steps ELSE steps - 1
    /\ hist' = Record(tag)
    /\ UNCHANGED <<mem_len, key_state, overflow_checks>>

\* emulate_chip8 panics: the process ends
Panic(tag) ==
    /\ hpc' = "panicked"
    /\ steps' = steps - 1
    /\ hist' = [Record(tag) EXCEPT !.dump = hist.dump]
    /\ UNCHANGED <<cpu, mem_len, key_state, overflow_checks>>

\* self.mem[self.pc] or self.mem[self.pc + 1] is out of range
FetchFault ==
    /\ Emulating
    /\ pc + 1 >= mem_len
    /\ Panic("fetch")

\* ------------------------------------------------------------ family 0
\* 00E0 - CLS
CLS ==
    /\ Fetch(0) /\ lo = 224
    /\ screen_buffer' = {}
    /\ pc' = pc + 2
    /\ UNCHANGED <<sp, I, V, delay, sound, mem>>
    /\ Return("CLS")

\* 00EE - RET
RET ==
    /\ Fetch(0) /\ lo = 238
    /\ IF sp + 1 >= mem_len
       THEN Panic("RET")
       ELSE /\ pc' = (MemAt(sp) * 256 + MemAt(sp + 1))
            /\ sp' = sp + 2
            /\ UNCHANGED <<I, V, delay, sound, mem, screen_buffer>>
            /\ Return("RET")

\* 00kk, kk not E0 or EE: println!("UNKNOWN ..."); pc += 2
UNKNOWN_0 ==
    /\ Fetch(0) /\ lo \notin {224, 238}
    /\ pc' = pc + 2
    /\ UNCHANGED <<sp, I, V, delay, sound, mem, screen_buffer>>
    /\ Return("UNKNOWN")

\* ------------------------------------------------------------ families 1..7
\* 1nnn - JP addr
JP ==
    /\ Fetch(1)
    /\ pc' = addr
    /\ UNCHANGED <<sp, I, V, delay, sound, mem, screen_buffer>>
    /\ Return("JP")

\* CALL pushing the address of the CALL itself instead of the one after it
CALL_pushes_pc ==
    /\ Fetch(2)
    /\ IF sp < 2 \/ sp - 2 + 1 >= mem_len
       THEN Panic("CALL")
       ELSE LET m1 == Store(mem, sp - 2, (pc \div 256) % 256)
                m2 == Store(m1, sp - 1, pc % 256)
            IN /\ sp' = sp - 2
               /\ mem' = m2
               /\ pc' = (MemOf(m2, pc) % 16) * 256 + MemOf(m2, pc + 1)
               /\ UNCHANGED <<I, V, delay, sound, screen_buffer>>
               /\ Return("CALL")

\* 2nnn - CALL addr: sp -= 2; the return address pc + 2 goes to mem[sp..sp+1];
\* then pc is built from mem[pc], mem[pc + 1] as they are after that write
CALL ==
    /\ Fetch(2)
    /\ IF sp < 2 \/ sp - 2 + 1 >= mem_len
       THEN Panic("CALL")
       ELSE LET m1 == Store(mem, sp - 2, ((pc + 2) \div 256) % 256)
                m2 == Store(m1, sp - 1, (pc + 2) % 256)
            IN /\ sp' = sp - 2
               /\ mem' = m2
               /\ pc' = (MemOf(m2, pc) % 16) * 256 + MemOf(m2, pc + 1)
               /\ UNCHANGED <<I, V, delay, sound, screen_buffer>>
               /\ Return("CALL")

\* pc += 2, twice when the skip condition holds
Skip(cond, tag) ==
    /\ pc' = IF cond THEN pc + 4 ELSE pc + 2
    /\ UNCHANGED <<sp, I, V, delay, sound, mem, screen_buffer>>
    /\ Return(tag)

\* 3xkk - SE Vx, byte
SE_byte == Fetch(3) /\ Skip(V[regx] = lo, "SE")

\* 4xkk - SNE Vx, byte
SNE_byte == Fetch(4) /\ Skip(V[regx] # lo, "SNE")

\* 5xy0 - SE Vx, Vy
SE_reg == Fetch(5) /\ Skip(V[regx] = V[regy], "SE")

\* the instruction wrote the registers to v and falls through to pc + 2
SetRegs(v, tag) ==
    /\ V' = v
    /\ pc' = pc + 2
    /\ UNCHANGED <<sp, I, delay, sound, mem, screen_buffer>>
    /\ Return(tag)

\* 6xkk - LD Vx, byte
LD_byte == Fetch(6) /\ SetRegs([V EXCEPT ![regx] = lo], "LD")

\* 7xkk - ADD Vx, byte: self.V[reg] += kk, a u8 addition
ADD_byte ==
    /\ Fetch(7)
    /\ IF overflow_checks /\ V[regx] + lo > 255
       THEN Panic("ADD_byte")
       ELSE SetRegs([V EXCEPT ![regx] = (V[regx] + lo) % 256], "ADD_byte")

\* ------------------------------------------------------------ family 8
Fetch8(nib) == Fetch(8) /\ sml_nib = nib

\* 8xy0 - LD Vx, Vy
LD_reg == Fetch8(0) /\ SetRegs([V EXCEPT ![regx] = V[regy]], "LD")

\* 8xy1 - OR Vx, Vy
OR == Fetch8(1) /\ SetRegs([V EXCEPT ![regx] = BitOr(V[regx], V[regy])], "OR")

\* 8xy2 - AND Vx, Vy
AND == Fetch8(2) /\ SetRegs([V EXCEPT ![regx] = BitAnd(V[regx], V[regy])], "AND")

\* 8xy3 - XOR Vx, Vy
XOR == Fetch8(3) /\ SetRegs([V EXCEPT ![regx] = BitXor(V[regx], V[regy])], "XOR")

\* ADD Vx, Vy taking the carry from bit 7 of the sum instead of bit 8
ADD_reg_carry_bit7 ==
    /\ Fetch8(4)
    /\ LET res == V[regx] + V[regy]
           v1 == [V EXCEPT ![15] = IF (res \div 128) % 2 = 0 THEN 0 ELSE 1]
           v2 == [v1 EXCEPT ![regx] = res % 256]
       IN SetRegs(v2, "ADD")

\* 8xy4 - ADD Vx, Vy: res is the u16 sum; V[0xF] is written, then V[regx]
ADD_reg ==
    /\ Fetch8(4)
    /\ LET res == V[regx] + V[regy]
           v1 == [V EXCEPT ![15] = IF res \div 256 = 0 THEN 0 ELSE 1]
           v2 == [v1 EXCEPT ![regx] = res % 256]
       IN SetRegs(v2, "ADD")

\* 8xy5 - SUB Vx, Vy: V[0xF] is written, then self.V[regx] -= self.V[regy], a
\* u8 subtraction on the registers as they are after that write
SUB ==
    /\ Fetch8(5)
    /\ LET v1 == [V EXCEPT ![15] = IF V[regx] > V[regy] THEN 1 ELSE 0]
       IN IF overflow_checks /\ v1[regx] < v1[regy]
          THEN Panic("SUB")
          ELSE SetRegs([v1 EXCEPT ![regx] = (v1[regx] - v1[regy]) % 256], "SUB")

\* 8xy6 - SHR Vx: V[0xF] = V[regx] & 1, then V[regx] /= 2
SHR ==
    /\ Fetch8(6)
    /\ LET v1 == [V EXCEPT ![15] = V[regx] % 2]
       IN SetRegs([v1 EXCEPT ![regx] = v1[regx] \div 2], "SHR")

\* 8xy7 - SUBN Vx, Vy: V[0xF] is written, then V[regx] = V[regy] - V[regx]
SUBN ==
    /\ Fetch8(7)
    /\ LET v1 == [V EXCEPT ![15] = IF V[regy] > V[regx] THEN 1 ELSE 0]
       IN IF overflow_checks /\ v1[regy] < v1[regx]
          THEN Panic("SUBN")
          ELSE SetRegs([v1 EXCEPT ![regx] = (v1[regy] - v1[regx]) % 256], "SUBN")

\* 8xyE - SHL Vx: V[0xF] = V[regx] & (1 << 7), then V[regx] *= 2, a u8 product
SHL ==
    /\ Fetch8(14)
    /\ LET v1 == [V EXCEPT ![15] = BitAnd(V[regx], 128)]
       IN IF overflow_checks /\ v1[regx] * 2 > 255
          THEN Panic("SHL")
          ELSE SetRegs([v1 EXCEPT ![regx] = (v1[regx] * 2) % 256], "SHL")

\* 8xyk, k in 8..D or F: println!("UNKNOWN ..."); pc += 2
UNKNOWN_8 ==
    /\ Fetch(8) /\ sml_nib \notin {0, 1, 2, 3, 4, 5, 6, 7, 14}
    /\ pc' = pc + 2
    /\ UNCHANGED <<sp, I, V, delay, sound, mem, screen_buffer>>
    /\ Return("UNKNOWN")

\* ------------------------------------------------------------ families 9..C
\* 9xy0 - SNE Vx, Vy
SNE_reg == Fetch(9) /\ Skip(V[regx] # V[regy], "SNE")

\* Annn - LD I, addr
LD_I ==
    /\ Fetch(10)
    /\ I' = addr
    /\ pc' = pc + 2
    /\ UNCHANGED <<sp, V, delay, sound, mem, screen_buffer>>
    /\ Return("LD_I")

\* Bnnn - JP V0, addr: pc = nnn + V[0] (a u16 sum, at most 0xFFF + 0xFF);
\* then self.pc += 2
JP_V0 ==
    /\ Fetch(11)
    /\ pc' = (addr + V[0]) + 2
    /\ UNCHANGED <<sp, I, V, delay, sound, mem, screen_buffer>>
    /\ Return("JP_V0")

\* Cxkk - RND Vx, byte
RND ==
    /\ Fetch(12)
    /\ \E r \in RandBytes : SetRegs([V EXCEPT ![regx] = BitAnd(r, lo)], "RND")

\* ------------------------------------------------------------ family D
\* `1 << j` on a u8 with j in -8..-1, built without overflow checks: the shift
\* amount is taken modulo 8, so the mask is bit j + 8
ShiftBit(j) == j % 8

\* ((x - 1) - j as usize) % W in wrapping usize arithmetic: `j as usize` is
\* 2^64 + j, the difference is x - 1 - j modulo 2^64, which lies in 0..262
Col(x, j) == (x - 1 - j) % W

\* the iterations <<i, j>> of `for i in 0..n { for j in (-8)..(0) {` whose test
\* mem[i + I] & (1 << j) != 0 passes
Lit(n) ==
    { ij \in (0..(n - 1)) \X ((-8)..(-1)) :
        Bit(MemAt(I + ij[1]), ShiftBit(ij[2])) # 0 }

\* (ii * W) + jj of iteration <<i, j>>
PixelIndex(ij, x, y) == (((ij[1] + y) % H) * W) + Col(x, ij[2])

\* The loops of Dxyn on framebuffer scr: every passing iteration does
\* screen_buffer[(ii * W) + jj] ^= 0xffffff.  The XORs commute, so a pixel ends
\* flipped iff an odd number of passing iterations index it.
Blit(scr, n, x, y) ==
    LET flipped == { px \in { PixelIndex(ij, x, y) : ij \in Lit(n) } :
                       Cardinality({ ij \in Lit(n) : PixelIndex(ij, x, y) = px }) % 2 = 1 }
    IN (scr \ flipped) \cup (flipped \ scr)

\* Dxyn - DRW Vx, Vy, n.  With overflow checks `1 << j` traps in the first
\* iteration; mem[i + I] is an index panic past the end of mem.  V[0xF] is
\* never written (the collision test is commented out).
DRW ==
    /\ Fetch(13)
    /\ IF sml_nib > 0 /\ (overflow_checks \/ I + sml_nib - 1 >= mem_len)
       THEN Panic("DRW")
       ELSE /\ screen_buffer' = Blit(screen_buffer, sml_nib, V[regx], V[regy])
            /\ pc' = pc + 2
            /\ UNCHANGED <<sp, I, V, delay, sound, mem>>
            /\ Return("DRW")

\* ------------------------------------------------------------ family E
\* Ex9E - SKP Vx: key_state[V[reg]] == 1
SKP ==
    /\ Fetch(14) /\ lo = 158
    /\ IF V[regx] >= NKEYS
       THEN Panic("SKP")
       ELSE Skip(key_state[V[regx]] = 1, "SKP")

\* ExA1 - SKNP Vx: key_state[V[reg]] == 0
SKNP ==
    /\ Fetch(14) /\ lo = 161
    /\ IF V[regx] >= NKEYS
       THEN Panic("SKNP")
       ELSE Skip(key_state[V[regx]] = 0, "SKNP")

\* Ekk, kk not 9E or A1: println!("UNKNOWN ..."); pc += 2
UNKNOWN_E ==
    /\ Fetch(14) /\ lo \notin {158, 161}
    /\ pc' = pc + 2
    /\ UNCHANGED <<sp, I, V, delay, sound, mem, screen_buffer>>
    /\ Return("UNKNOWN")

\* ------------------------------------------------------------ family F
\* Fx07 - LD Vx, DT
LD_Vx_DT == Fetch(15) /\ lo = 7 /\ SetRegs([V EXCEPT ![regx] = delay], "LD_Vx_DT")

\* Fx15 - LD DT, Vx: self.delay = self.mem[self.pc] & 0x0f
LD_DT ==
    /\ Fetch(15) /\ lo = 21
    /\ delay' = op % 16
    /\ pc' = pc + 2
    /\ UNCHANGED <<sp, I, V, sound, mem, screen_buffer>>
    /\ Return("LD_DT")

\* Fx18 - LD ST, Vx: self.sound = self.mem[self.pc] & 0x0f
LD_ST ==
    /\ Fetch(15) /\ lo = 24
    /\ sound' = op % 16
    /\ pc' = pc + 2
    /\ UNCHANGED <<sp, I, V, delay, mem, screen_buffer>>
    /\ Return("LD_ST")

\* Fx29 - LD F, Vx: I = FONT_BASE + (V[reg] * 5) as u16, the product a u8
LD_F ==
    /\ Fetch(15) /\ lo = 41
    /\ IF overflow_checks /\ V[regx] * 5 > 255
       THEN Panic("LD_F")
       ELSE /\ I' = FONT_BASE + ((V[regx] * 5) % 256)
            /\ pc' = pc + 2
            /\ UNCHANGED <<sp, V, delay, sound, mem, screen_buffer>>
            /\ Return("LD_F")

\* Fx33 - LD B, Vx: hundreds, tens, ones of V[reg] to mem[I], mem[I+1], mem[I+2]
LD_B ==
    /\ Fetch(15) /\ lo = 51
    /\ IF I + 2 >= mem_len
       THEN Panic("LD_B")
       ELSE LET val == V[regx]
                ones == val % 10
                tens == (val \div 10) % 10
                hundreds == ((val \div 10) \div 10) % 10
            IN /\ mem' = Store(Store(Store(mem, I, hundreds), I + 1, tens), I + 2, ones)
               /\ pc' = pc + 2
               /\ UNCHANGED <<sp, I, V, delay, sound, screen_buffer>>
               /\ Return("LD_B")

RECURSIVE Dump(_, _, _)
\* for i in k..=x { mem[I + i] = V[i] }
Dump(m, k, x) == IF k > x THEN m ELSE Dump(Store(m, I + k, V[k]), k + 1, x)

\* self.I += d, a u16 addition: the value, or -1 where it traps
AddI(d) ==
    IF I + d > 65535
    THEN (IF overflow_checks THEN -1 ELSE (I + d) % 65536)
    ELSE I + d

\* Fx55 - LD [I], Vx: V0..Vx to mem[I..I+x]; I += x + 1
LD_I_Vx ==
    /\ Fetch(15) /\ lo = 85
    /\ IF I + regx >= mem_len \/ AddI(regx + 1) < 0
       THEN Panic("LD_I_Vx")
       ELSE /\ mem' = Dump(mem, 0, regx)
            /\ I' = AddI(regx + 1)
            /\ pc' = pc + 2
            /\ UNCHANGED <<sp, V, delay, sound, screen_buffer>>
            /\ Return("LD_I_Vx")

\* LD Vx, [I] with the loop `for i in 0..x`, one register short
LD_Vx_I_one_short ==
    /\ Fetch(15) /\ lo = 101
    /\ IF I + regx >= mem_len \/ AddI(regx + 1) < 0
       THEN Panic("LD_Vx_I")
       ELSE /\ V' = [i \in DOMAIN V |-> IF i < regx THEN MemAt(I + i) ELSE V[i]]
            /\ I' = AddI(regx + 1)
            /\ pc' = pc + 2
            /\ UNCHANGED <<sp, delay, sound, mem, screen_buffer>>
            /\ Return("LD_Vx_I")

\* Fx65 - LD Vx, [I]: mem[I..I+x] to V0..Vx; I += x + 1
LD_Vx_I ==
    /\ Fetch(15) /\ lo = 101
    /\ IF I + regx >= mem_len \/ AddI(regx + 1) < 0
       THEN Panic("LD_Vx_I")
       ELSE /\ V' = [i \in DOMAIN V |-> IF i <= regx THEN MemAt(I + i) ELSE V[i]]
            /\ I' = AddI(regx + 1)
            /\ pc' = pc + 2
            /\ UNCHANGED <<sp, delay, sound, mem, screen_buffer>>
            /\ Return("LD_Vx_I")

\* the slots of key_state that are not 0
Pressed == {k \in DOMAIN key_state : key_state[k] # 0}

\* LD Vx, K with pc += 2 outside the key test
LD_K_always_advances ==
    /\ Fetch(15) /\ lo = 10
    /\ pc' = pc + 2
    /\ V' = IF Pressed = {} THEN V
            ELSE [V EXCEPT ![regx] = CHOOSE k \in Pressed : \A k2 \in Pressed : k <= k2]
    /\ UNCHANGED <<sp, I, delay, sound, mem, screen_buffer>>
    /\ Return("LD_K")

\* Fx0A - LD Vx, K: the first slot that is not 0 goes to Vx and pc += 2;
\* with none, nothing is written
LD_K ==
    /\ Fetch(15) /\ lo = 10
    /\ IF Pressed = {}
       THEN /\ UNCHANGED <<pc, sp, I, V, delay, sound, mem, screen_buffer>>
            /\ Return("LD_K")
       ELSE LET index == CHOOSE k \in Pressed : \A k2 \in Pressed : k <= k2
            IN /\ pc' = pc + 2
               /\ V' = [V EXCEPT ![regx] = index]
               /\ UNCHANGED <<sp, I, delay, sound, mem, screen_buffer>>
               /\ Return("LD_K")

\* Fx1E - ADD I, Vx
ADD_I ==
    /\ Fetch(15) /\ lo = 30
    /\ IF AddI(V[regx]) < 0
       THEN Panic("ADD_I")
       ELSE /\ I' = AddI(V[regx])
            /\ pc' = pc + 2
            /\ UNCHANGED <<sp, V, delay, sound, mem, screen_buffer>>
            /\ Return("ADD_I")

\* the unknown-opcode arm of family F ending in not_impl's panic!
UNKNOWN_F_not_impl ==
    /\ Fetch(15) /\ lo \notin {7, 10, 21, 24, 30, 41, 51, 85, 101}
    /\ Panic("UNKNOWN")

\* Fkk, kk not in the table: println!("UNKNOWN ..."); pc += 2
UNKNOWN_F ==
    /\ Fetch(15) /\ lo \notin {7, 10, 21, 24, 30, 41, 51, 85, 101}
    /\ pc' = pc + 2
    /\ UNCHANGED <<sp, I, V, delay, sound, mem, screen_buffer>>
    /\ Return("UNKNOWN")

\* ------------------------------------------------------------ disassembler
\* What one println! of _disassemble_chip8 writes: the format string, the
\* values handed to it, and whether the line says "not implemented".
Line(fmt, args) == [fmt |-> fmt, args |-> args, not_implemented |-> FALSE]
NotImplemented(fmt, args) == [fmt |-> fmt, args |-> args, not_implemented |-> TRUE]

\* data[self.pc + 1] & 0xf0
lo_f0 == (lo \div 16) * 16

\* the arms of `match nib` in family 8, nib = data[self.pc + 1] >> 4
disassemble_8 ==
    LET nib == lo \div 16
        xy == <<op % 16, lo_f0>>
    IN CASE nib = 0 -> Line("LD V{:02x}, V{:02x}", xy)
         [] nib = 1 -> Line("OR V{:02x}, V{:02x}", xy)
         [] nib = 2 -> Line("AND V{:02x}, V{:02x}", xy)
         [] nib = 3 -> Line("XOR V{:02x}, V{:02x}", xy)
         [] nib = 4 -> Line("ADD V{:02x}, V{:02x}", xy)
         [] nib = 5 -> Line("SUB V{:02x}, V{:02x}", xy)
         [] nib = 6 -> Line("SHR V{:02x}, V{:02x}", xy)
         [] nib = 7 -> Line("SUBN V{:02x}, V{:02x}", xy)
         [] nib = 14 -> Line("SHL V{:02x}, V{:02x}", xy)
         [] OTHER -> NotImplemented("{:04x} not implemented", <<nib>>)

\* the arms of `match data[self.pc + 1]` in family F
disassemble_F ==
    LET x == <<op % 16>>
    IN CASE lo = 7 -> Line("LD V{:02x}, DT", x)
         [] lo = 10 -> Line("LD V{:02x}, K", x)
         [] lo = 21 -> Line("LD DT, V{:02x}", x)
         [] lo = 24 -> Line("LD ST, V{:02x}", x)
         [] lo = 14 -> Line("ADD I, V{:02x}", x)
         [] lo = 41 -> Line("LD F, V{:02x}", x)
         [] lo = 51 -> Line("LD B, V{:02x}", x)
         [] lo = 85 -> Line("LD [I], V{:02x}", x)
         [] lo = 101 -> Line("LD V{:02x}, [I]", x)
         [] OTHER -> NotImplemented("F{:04x} not implemented", <<lo>>)

\* the line _disassemble_chip8 prints for the word at pc
disassemble_line ==
    LET nibble == op \div 16
        xb == <<op % 16, lo>>
    IN CASE nibble = 0 ->
              (IF lo = 224 THEN Line("CLS", <<>>)
               ELSE IF lo = 238 THEN Line("RET", <<>>)
               ELSE NotImplemented("00{:02x} not implemented", <<lo>>))
         [] nibble = 1 -> Line("JUMP ${:02x}{:04x}", xb)
         [] nibble = 2 -> Line("CALL ${:02x}{:04x}", xb)
         [] nibble = 3 -> Line("SE V{:02x}, #${:04x}", xb)
         [] nibble = 4 -> Line("SNE V{:02x}, #${:04x}", xb)
         [] nibble = 5 -> Line("SE V{:02x}, V{:02x}", <<op % 16, lo_f0>>)
         [] nibble = 6 -> Line("LD V{:02x}, #${:04x}", xb)
         [] nibble = 7 -> Line("ADD V{:02x}, #${:04x}", xb)
         [] nibble = 8 -> disassemble_8
         [] nibble = 9 -> Line("SNE V{:02x}, V{:02x}", <<op % 16, lo_f0>>)
         [] nibble = 10 -> Line("LD I, ${:03x}", <<(op % 16) * 256 + lo>>)
         [] nibble = 11 -> Line("JUMP V0, ${:02x}{:04x}", xb)
         [] nibble = 12 -> Line("RND V{:02x}, #${:04x}", xb)
         [] nibble = 13 -> Line("DRAW V{:02x}, V{:02x}, #${:02x}",
                                <<op % 16, lo_f0 \div 2, lo % 16>>)
         [] nibble = 14 ->
              (IF lo = 158 THEN Line("SKP V{:02x}", <<op % 16>>)
               ELSE IF lo = 161 THEN Line("SKNP V{:02x}", <<op % 16>>)
               ELSE Line("E{:02x}{:04x}", xb))
         [] nibble = 15 -> disassemble_F
         [] OTHER -> NotImplemented("{:04x} not implemented", <<nibble>>)

\* self._disassemble_chip8(): the line printed and the size returned
_disassemble_chip8 == [line |-> disassemble_line, instruction_size |-> 2]

\* The arm of emulate_chip8 that the word at pc selects, named by the line the
\* disassembler's table has for that instruction, with the fields the arm
\* works on in the order the line lists them; "UNKNOWN" for the arms that
\* print UNKNOWN and step over the word.
emulate_arm ==
    LET form(fmt, args) == [fmt |-> fmt, args |-> args]
        unknown == form("UNKNOWN", <<>>)
        x == regx
        xy == <<regx, regy>>
        xb == <<regx, lo>>
    IN CASE high_nib = 0 ->
              (IF lo = 224 THEN form("CLS", <<>>)
               ELSE IF lo = 238 THEN form("RET", <<>>) ELSE unknown)
         [] high_nib = 1 -> form("JUMP ${:02x}{:04x}", xb)
         [] high_nib = 2 -> form("CALL ${:02x}{:04x}", xb)
         [] high_nib = 3 -> form("SE V{:02x}, #${:04x}", xb)
         [] high_nib = 4 -> form("SNE V{:02x}, #${:04x}", xb)
         [] high_nib = 5 -> form("SE V{:02x}, V{:02x}", xy)
         [] high_nib = 6 -> form("LD V{:02x}, #${:04x}", xb)
         [] high_nib = 7 -> form("ADD V{:02x}, #${:04x}", xb)
         [] high_nib = 8 ->
              (CASE sml_nib = 0 -> form("LD V{:02x}, V{:02x}", xy)
                 [] sml_nib = 1 -> form("OR V{:02x}, V{:02x}", xy)
                 [] sml_nib = 2 -> form("AND V{:02x}, V{:02x}", xy)
                 [] sml_nib = 3 -> form("XOR V{:02x}, V{:02x}", xy)
                 [] sml_nib = 4 -> form("ADD V{:02x}, V{:02x}", xy)
                 [] sml_nib = 5 -> form("SUB V{:02x}, V{:02x}", xy)
                 [] sml_nib = 6 -> form("SHR V{:02x}, V{:02x}", xy)
                 [] sml_nib = 7 -> form("SUBN V{:02x}, V{:02x}", xy)
                 [] sml_nib = 14 -> form("SHL V{:02x}, V{:02x}", xy)
                 [] OTHER -> unknown)
         [] high_nib = 9 -> form("SNE V{:02x}, V{:02x}", xy)
         [] high_nib = 10 -> form("LD I, ${:03x}", <<addr>>)
         [] high_nib = 11 -> form("JUMP V0, ${:02x}{:04x}", xb)
         [] high_nib = 12 -> form("RND V{:02x}, #${:04x}", xb)
         [] high_nib = 13 -> form("DRAW V{:02x}, V{:02x}, #${:02x}", <<regx, regy, sml_nib>>)
         [] high_nib = 14 ->
              (IF lo = 158 THEN form("SKP V{:02x}", <<x>>)
               ELSE IF lo = 161 THEN form("SKNP V{:02x}", <<x>>) ELSE unknown)
         [] high_nib = 15 ->
              (CASE lo = 7 -> form("LD V{:02x}, DT", <<x>>)
                 [] lo = 10 -> form("LD V{:02x}, K", <<x>>)
                 [] lo = 21 -> form("LD DT, V{:02x}", <<x>>)
                 [] lo = 24 -> form("LD ST, V{:02x}", <<x>>)
                 [] lo = 30 -> form("ADD I, V{:02x}", <<x>>)
                 [] lo = 41 -> form("LD F, V{:02x}", <<x>>)
                 [] lo = 51 -> form("LD B, V{:02x}", <<x>>)
                 [] lo = 85 -> form("LD [I], V{:02x}", <<x>>)
                 [] lo = 101 -> form("LD V{:02x}, [I]", <<x>>)
                 [] OTHER -> unknown)

\* ------------------------------------------------------------ the system
Next ==
    \/ HostClear \/ HostExit \/ HostDisassemble \/ HostPoll \/ HostRender
    \/ FetchFault
    \/ CLS \/ RET \/ UNKNOWN_0
    \/ JP \/ CALL \/ SE_byte \/ SNE_byte \/ SE_reg \/ LD_byte \/ ADD_byte
    \/ LD_reg \/ OR \/ AND \/ XOR \/ ADD_reg \/ SUB \/ SHR \/ SUBN \/ SHL \/ UNKNOWN_8
    \/ SNE_reg \/ LD_I \/ JP_V0 \/ RND
    \/ DRW
    \/ SKP \/ SKNP \/ UNKNOWN_E
    \/ LD_Vx_DT \/ LD_DT \/ LD_ST \/ LD_F \/ LD_B \/ LD_I_Vx \/ LD_Vx_I \/ LD_K
    \/ ADD_I \/ UNKNOWN_F

Spec == Init /\ [][Next]_vars

\* main is one sequential loop with no other thread: whatever step it stands
\* before is taken
FairSpec == Init /\ [][Next]_vars /\ WF_vars(Next)

\* ------------------------------------------------------------ properties
Running == hpc # "panicked"

\* the last instruction's x field (no instruction named below writes its own word)
LastX == MemAt(hist.pc) % 16

\* C1: SUB Vx,Vy (8xy5, x and y below 0xF) never traps, advances pc by 2, sets
\* VF to 1 iff Vx > Vy and leaves Vx = (Vx - Vy) mod 256.
C1_SubWrapsNoTrap ==
    [][(Fetch8(5) /\ regx # 15 /\ regy # 15) =>
          /\ hpc' # "panicked"
          /\ pc' = pc + 2
          /\ V'[15] = (IF V[regx] > V[regy] THEN 1 ELSE 0)
          /\ V'[regx] = (V[regx] - V[regy]) % 256]_vars

\* C2, as claimed: for every x and y in 0x0..0xF, ADD Vx,Vy sets VF to 1 iff
\* Vx + Vy > 255 (else 0) and Vx to (Vx + Vy) mod 256.
C2_AddCarryEveryX ==
    [][Fetch8(4) =>
          /\ V'[15] = (IF V[regx] + V[regy] > 255 THEN 1 ELSE 0)
          /\ V'[regx] = (V[regx] + V[regy]) % 256]_vars

\* C2, amended: ADD Vx,Vy never traps; for x in 0x0..0xE and y in 0x0..0xF it
\* sets VF to 1 iff Vx + Vy > 255 (else 0) and Vx to (Vx + Vy) mod 256; for
\* x = 0xF the sum overwrites the carry: VF = (VF + Vy) mod 256.
C2_AddCarry ==
    [][Fetch8(4) =>
          /\ hpc' # "panicked"
          /\ pc' = pc + 2
          /\ V'[regx] = (V[regx] + V[regy]) % 256
          /\ regx # 15 => V'[15] = (IF V[regx] + V[regy] > 255 THEN 1 ELSE 0)]_vars

\* ADD V0,V1 has run on 255 + 1: V0 = 0 and VF = 1
C2_Witness ==
    /\ hist.op = "ADD" /\ Running
    /\ LastX = 0 /\ MemAt(hist.pc + 1) \div 16 = 1
    /\ V[1] = 1 /\ V[0] = 0 /\ V[15] = 1

\* C3: ADD Vx,byte (7xkk, x below 0xF) never traps, leaves Vx = (Vx + kk) mod
\* 256, advances pc by 2 and leaves VF unchanged.
C3_AddByteWrapsNoTrap ==
    [][(Fetch(7) /\ regx # 15) =>
          /\ hpc' # "panicked"
          /\ pc' = pc + 2
          /\ V'[regx] = (V[regx] + lo) % 256
          /\ V'[15] = V[15]]_vars

\* C4: after a DRW that completes, VF is 1 if some framebuffer pixel went from
\* on to off, and 0 otherwise.
C4_DrawCollisionFlag ==
    [][(Fetch(13) /\ hpc' # "panicked") =>
          V'[15] = (IF \E px \in screen_buffer : px \notin screen_buffer' THEN 1 ELSE 0)]_vars

\* the pixels DRW Vx,Vy,n is to flip: ((Vx + k) mod 64, (Vy + r) mod 32) for
\* each set bit k (0 = most significant) of sprite row r, the byte at I + r
C5_Target ==
    { ((V[regy] + r) % H) * W + ((V[regx] + k) % W) :
        <<r, k>> \in { rk \in (0..(sml_nib - 1)) \X (0..7) :
                         Bit(MemAt(I + rk[1]), 7 - rk[2]) = 1 } }

\* C5: DRW Vx,Vy,n with the sprite rows inside memory completes without fault
\* and flips exactly the target pixels, all inside the 64x32 grid.
C5_DrawFlipsExactly ==
    [][(Fetch(13) /\ I + sml_nib <= mem_len) =>
          /\ hpc' # "panicked"
          /\ screen_buffer' = (screen_buffer \ C5_Target) \cup (C5_Target \ screen_buffer)
          /\ screen_buffer' \subseteq 0..(W * H - 1)]_vars

\* C6: a RET executed right after a CALL that ran at program counter p leaves
\* pc = p + 2 and sp as it was before the CALL.
C6_CallRetRoundTrip ==
    (hist.op = "RET" /\ hist.prev.op = "CALL" /\ Running) =>
        (pc = hist.prev.pc + 2 /\ sp = hist.prev.sp)

\* a CALL made with a return address already pushed, then RET
C6_Witness ==
    /\ hist.op = "RET" /\ hist.prev.op = "CALL" /\ Running
    /\ hist.prev.sp < STACK_INIT
    /\ pc = hist.prev.pc + 2 /\ sp = hist.prev.sp

\* C7: with I..I+x inside memory, LD [I],Vx stores V0..Vx at I..I+x, advances I
\* by x + 1 and writes no register; LD Vx,[I] run with I back at the value it
\* had for the store, and memory not written since, gives V0..Vx the values
\* they had at the store, advances I by x + 1 and leaves the registers above x.
C7_StoreLoadRoundTrip ==
    [][/\ (Fetch(15) /\ lo = 85 /\ I + regx < mem_len) =>
            /\ hpc' # "panicked"
            /\ \A i \in 0..regx : MemOf(mem', I + i) = V[i]
            /\ I' = I + regx + 1
            /\ V' = V
       /\ (Fetch(15) /\ lo = 101 /\ I + regx < mem_len) =>
            /\ hpc' # "panicked"
            /\ I' = I + regx + 1
            /\ \A i \in (regx + 1)..(NREGS - 1) : V'[i] = V[i]
            /\ (hist.dump.valid /\ hist.dump.I = I /\ hist.dump.x = regx) =>
                 \A i \in 0..regx : V'[i] = hist.dump.V[i]]_vars

\* V0 = 157 and V1 = 200 were stored, V0 was overwritten, and LD V1,[I] has
\* brought both back
C7_Witness ==
    /\ hist.op = "LD_Vx_I" /\ Running
    /\ hist.dump.valid /\ hist.dump.x = 1 /\ LastX = 1
    /\ I = hist.dump.I + 2
    /\ hist.dump.V[0] = 157 /\ V[0] = 157 /\ V[1] = 200

\* C8: a step of LD Vx,K with no keypad slot pressed changes neither pc nor any
\* register; a step with some slot pressed puts the index of a pressed key in
\* Vx and advances pc by 2.
C8_KeyWaitSuspends ==
    [][(Fetch(15) /\ lo = 10) =>
          /\ hpc' # "panicked"
          /\ IF \A k \in DOMAIN key_state : key_state[k] = 0
             THEN UNCHANGED <<pc, sp, I, V, delay, sound>>
             ELSE /\ key_state[V'[regx]] # 0
                  /\ pc' = pc + 2]_vars

\* LD Vx,K was stepped once with no key pressed and then again with key 3 down
C8_Witness ==
    /\ hist.op = "LD_K" /\ hist.prev.op = "LD_K" /\ Running
    /\ hist.prev.pc = hist.pc
    /\ pc = hist.pc + 2
    /\ key_state[3] = 1 /\ V[LastX] = 3

\* the instruction table of the families that dispatch on the low byte or nibble
C9_InTable(b0, b1) ==
    CASE b0 \div 16 = 0 -> b1 \in {224, 238}
      [] b0 \div 16 = 8 -> b1 % 16 \in {0, 1, 2, 3, 4, 5, 6, 7, 14}
      [] b0 \div 16 = 14 -> b1 \in {158, 161}
      [] b0 \div 16 = 15 -> b1 \in {7, 10, 21, 24, 30, 41, 51, 85, 101}
      [] OTHER -> TRUE

\* C9: a step on a word that is not in the instruction table does not panic
\* and changes nothing but pc, which advances by 2.
C9_UnknownIsNoOp ==
    [][(Emulating /\ pc + 1 < mem_len /\ ~C9_InTable(op, lo)) =>
          /\ hpc' # "panicked"
          /\ pc' = pc + 2
          /\ UNCHANGED <<sp, I, V, delay, sound, mem, mem_len, screen_buffer>>]_vars

\* an unknown word of family F was stepped over
C9_Witness ==
    /\ hist.op = "UNKNOWN" /\ Running
    /\ MemAt(hist.pc) \div 16 = 15
    /\ ~C9_InTable(MemAt(hist.pc), MemAt(hist.pc + 1))
    /\ pc = hist.pc + 2

\* C10: after JP V0,addr (Bnnn) pc is nnn + V0.
C10_JumpV0Exact ==
    [][Fetch(11) => pc' = addr + V[0]]_vars

\* C11: LD DT,Vx (Fx15) sets the delay timer to the value of Vx and LD ST,Vx
\* (Fx18) sets the sound timer to the value of Vx; LD Vy,DT run right after
\* LD DT,Vx therefore leaves Vy equal to the value Vx had.
C11_TimersTakeVx ==
    [][/\ (Fetch(15) /\ lo = 21) => delay' = V[regx]
       /\ (Fetch(15) /\ lo = 24) => sound' = V[regx]
       /\ (Fetch(15) /\ lo = 7 /\ hist.op = "LD_DT") => V'[regx] = V[MemAt(hist.pc) % 16]]_vars

\* C12: SHL Vx (8xyE, x below 0xF) never traps, sets VF to the most
\* significant bit of Vx as 0 or 1 and leaves Vx = (2 * Vx) mod 256.
C12_ShlFlagAndWrap ==
    [][(Fetch8(14) /\ regx # 15) =>
          /\ hpc' # "panicked"
          /\ V'[15] = V[regx] \div 128
          /\ V'[regx] = (2 * V[regx]) % 256]_vars

\* C13: LD F,Vx (Fx29) never traps and sets I to the base address of the glyph
\* of the low nibble of Vx: FONT_BASE + 5 * (Vx mod 16).
C13_FontAddrLowNibble ==
    [][(Fetch(15) /\ lo = 41) =>
          /\ hpc' # "panicked"
          /\ I' = FONT_BASE + 5 * (V[regx] % 16)]_vars

\* C14: the timers never leave 0..255, and while the host loop keeps turning a
\* timer that is not 0 reaches 0, or is written again by LD DT,Vx / LD ST,Vx,
\* as the fixed-rate tick decrements it.
C14_TimersRunDown ==
    /\ [](delay \in 0..255 /\ sound \in 0..255)
    /\ []<>(hpc = "render") =>
          /\ (delay > 0 /\ hist.op # "LD_DT") ~> (delay = 0 \/ hist.op = "LD_DT")
          /\ (sound > 0 /\ hist.op # "LD_ST") ~> (sound = 0 \/ hist.op = "LD_ST")

\* main is about to print the disassembly of the word at pc, which is in mem
Disassembling == hpc = "disasm" /\ pc + 1 < mem_len

\* C15: for the word it is given, the disassembler names the instruction form
\* the executor executes for that word, with the same field values, and marks
\* the word "not implemented" exactly when the executor treats it as unknown.
C15_DecodeAgrees ==
    Disassembling =>
        LET d == _disassemble_chip8.line
            e == emulate_arm
        IN /\ d.not_implemented <=> e.fmt = "UNKNOWN"
           /\ e.fmt # "UNKNOWN" => (d.fmt = e.fmt /\ d.args = e.args)

\* C16: disassembling a word that is not in the instruction table (families
\* 0, 8, E and F) does not fail, changes no machine state, returns size 2 and
\* prints a line carrying the "not implemented" marker.
C16_UnknownMarked ==
    [][(Disassembling /\ ~C9_InTable(op, lo)) =>
          /\ hpc' # "panicked"
          /\ UNCHANGED <<cpu, mem_len, key_state>>
          /\ _disassemble_chip8.instruction_size = 2
          /\ _disassemble_chip8.line.not_implemented]_vars

\* the CHIP-8 hexadecimal font: the five rows of the glyph of each digit 0..F
C17_Glyph ==
    << <<240, 144, 144, 144, 240>>, <<32, 96, 32, 32, 112>>,
       <<240, 16, 240, 128, 240>>, <<240, 16, 240, 16, 240>>,
       <<144, 144, 240, 16, 16>>, <<240, 128, 240, 16, 240>>,
       <<240, 128, 240, 144, 240>>, <<240, 16, 32, 64, 64>>,
       <<240, 144, 240, 144, 240>>, <<240, 144, 240, 16, 240>>,
       <<240, 144, 240, 144, 144>>, <<224, 144, 224, 144, 224>>,
       <<240, 128, 128, 128, 240>>, <<224, 144, 144, 144, 224>>,
       <<240, 128, 240, 128, 240>>, <<240, 128, 240, 128, 128>> >>

\* C17: before the first instruction runs, pc is 0x200, memory from 0x200 on
\* holds the bytes of a program image, and for every hex digit d the five bytes
\* at 5 * d are the glyph of d.
C17_InitialImageAndFont ==
    hist.op = "none" =>
        /\ pc = PROG_BASE
        /\ \E m \in Images :
              /\ mem_len = NewMemLen(m)
              /\ \A i \in 1..Len(m) : MemAt(PROG_BASE + i - 1) = m[i]
        /\ \A d \in 0..15 : \A k \in 0..4 :
              MemAt(FONT_BASE + 5 * d + k) = C17_Glyph[d + 1][k + 1]

\* C18: every call of emulate_chip8 is made after the keys held in this turn of
\* the loop were recorded: none is made between clear_keys and get_keys.
C18_KeysBeforeStep ==
    [][(Emulating /\ hpc' # hpc) => hpc = "step"]_vars

\* C19: the program counter is even in every reachable state.
C19_PcEven == pc % 2 = 0

\* C20: in every reachable state the stack pointer is at most its initial
\* value 0xFA0 and not below the start of memory.
C20_StackBounded == sp >= 0 /\ sp <= STACK_INIT

\* C21: a step of ADD, SUB, SUBN, SHR or SHL (x below 0xF) that completes
\* leaves in Vx the result computed from the registers as they were before the
\* step, also when y = 0xF: SUB Vx,VF gives (Vx - old VF) mod 256 and
\* SUBN Vx,VF gives (old VF - Vx) mod 256.
C21_ResultFromOldRegs ==
    [][(Fetch(8) /\ regx # 15 /\ hpc' # "panicked") =>
          /\ sml_nib = 4 => V'[regx] = (V[regx] + V[regy]) % 256
          /\ sml_nib = 5 => V'[regx] = (V[regx] - V[regy]) % 256
          /\ sml_nib = 7 => V'[regx] = (V[regy] - V[regx]) % 256
          /\ sml_nib = 6 => V'[regx] = V[regx] \div 2
          /\ sml_nib = 14 => V'[regx] = (2 * V[regx]) % 256]_vars

\* C22: SKP Vx / SKNP Vx with Vx above 0xF does not complete as a skip or
\* no-skip decision taken from keypad slot Vx, a slot beyond the 16 keys.
C22_NoSlotBeyondKeys ==
    [][(Fetch(14) /\ lo \in {158, 161} /\ V[regx] > 15) =>
          ~ /\ hpc' # "panicked"
            /\ V[regx] \in DOMAIN key_state
            /\ pc' = IF key_state[V[regx]] = (IF lo = 158 THEN 1 ELSE 0)
                      THEN pc + 4 ELSE pc + 2]_vars

\* C23: after a step that executed an unrecognised opcode a further step is
\* possible: the interpreter has not faulted and the two bytes at pc and
\* pc + 1 are inside memory.
C23_UnknownNeverHalts ==
    hist.op = "UNKNOWN" => (Running /\ pc + 1 < mem_len)

\* C24: slot 16 of the keypad is 0 and every slot holds 0 or 1 in every
\* reachable state; update_key_down with a keycode above 0xF leaves the keypad
\* as it is and clear_keys zeroes all 17 slots; a LD Vx,K that found a key has
\* stored an index in 0x0..0xF in Vx.
C24_KeypadSlots ==
    /\ key_state[NKEYS - 1] = 0
    /\ \A k \in DOMAIN key_state : key_state[k] \in {0, 1}
    /\ \A keycode \in 16..255 : update_key_down(key_state, keycode) = key_state
    /\ clear_keys = ZeroKeys
    /\ (hist.op = "LD_K" /\ pc = hist.pc + 2) => V[LastX] \in 0..15

\* keys 3 and F are down, slot 16 is 0, and LD Vx,K has stored 3
C24_Witness ==
    /\ hist.op = "LD_K" /\ pc = hist.pc + 2 /\ Running
    /\ key_state[3] = 1 /\ key_state[15] = 1 /\ key_state[NKEYS - 1] = 0
    /\ V[LastX] = 3

====
